---- MODULE Spec2Model ----
(***************************************************************************)
(* iborker: futures roll detection (roll.py) and the options expected-move *)
(* calculator (stdev.py).                                                  *)
(*                                                                         *)
(* Numbers.  A Python float is modelled by the exact rational it stands    *)
(* for, a pair <<n, d>> in lowest terms with d > 0; NaN is the pair        *)
(* <<0, 0>>.  The result of math.sqrt is kept exact as a signed square     *)
(* root [sgn, sq] standing for sgn * sqrt(sq).                              *)
(***************************************************************************)
EXTENDS Integers, Sequences, FiniteSets, TLC

VARIABLES
    call,       \* the last call of a calculation function: its name and arguments
    ret,        \* what that call returned or raised
    cmd,        \* the roll command in progress: "none", "status" or "today"
    pc,         \* "idle", "loop" (inside the per-symbol loop) or "done"
    todo,       \* the symbols the loop has still to visit
    statuses,   \* the RollStatus list built so far
    fetched,    \* per symbol visited: whether get_roll_status raised, and what it returned
    table,      \* the rows handed to _print_status_table, None when not printed
    exit,       \* "none", "ok", or "error" for typer.Exit(1)
    oi_pc,          \* where a get_oi_snapshot call stands
    oi_contracts,   \* its contracts argument
    oi_i,           \* the position of its collecting loop
    subscriptions,  \* the contracts with an open market-data subscription
    tickers,        \* futuresOpenInterest of each subscribed contract's ticker
    oi_dict,        \* the result dict, localSymbol -> open interest
    tool,           \* per process: the tool it runs
    ppc,            \* per process: where its allocate() / release() stands
    cand,           \* per process: the index i of allocate's loop
    readpid,        \* per process: the PID _acquire_lock read from the lock file
    client_id,      \* per process: ClientIdManager.client_id, {} for None
    created,        \* per process: the IDs whose lock file it created
    files,          \* the lock directory: per ID, the lock file
    stolen,         \* the IDs whose lock file _acquire_lock removed while it named a live process
    others,         \* the IDs held by live processes other than the modelled ones
    highlighted_action, \* TraderState.highlighted_action, "none" for None
    events,             \* the key presses and button clicks handled so far
    dispatched,         \* the _on_<action>_click calls made so far
    ib,                 \* whether ClickTrader.ib and TraderState.contract are set
    position,           \* TraderState.position
    avg_cost,           \* TraderState.avg_cost
    quantity,           \* TraderState.quantity
    daily_realized_points, \* TraderState.daily_realized_points
    orders,             \* the place_order coroutines started so far, with their trades
    account_position,   \* the position of the contract in the account, at the broker
    updates             \* the position updates the broker sent, not yet delivered

vars == <<call, ret, cmd, pc, todo, statuses, fetched, table, exit,
          oi_pc, oi_contracts, oi_i, subscriptions, tickers, oi_dict,
          tool, ppc, cand, readpid, client_id, created, files, stolen, others,
          highlighted_action, events, dispatched,
          ib, position, avg_cost, quantity, daily_realized_points,
          orders, account_position, updates>>
calcVars == <<call, ret>>
rollVars == <<cmd, pc, todo, statuses, fetched, table, exit>>
snapVars == <<oi_pc, oi_contracts, oi_i, subscriptions, tickers, oi_dict>>
lockVars == <<tool, ppc, cand, readpid, client_id, created, files, stolen, others>>
traderVars == <<highlighted_action, events, dispatched>>
orderVars == <<ib, position, avg_cost, quantity, daily_realized_points,
               orders, account_position, updates>>

None == <<>>

----------------------------------------------------------------------------
(* Bounds of the model *)

MaxOI == 90          \* open interest arguments of calculate_roll_state: -1..MaxOI
MaxReading == 4      \* futuresOpenInterest ticks seen by get_oi_snapshot: 0..MaxReading
MaxDetails == 2      \* contract details returned by reqContractDetailsAsync
MaxArgs == 2         \* symbols given to `roll status`
MaxPrice == 2        \* underlying prices: -1..MaxPrice, and 100
MaxIvFifths == 2     \* implied volatilities: k/5 for k in -1..MaxIvFifths
MaxExpDay == 2       \* expiration dates: day 0..MaxExpDay
MaxNowQuarters == 9  \* datetime.now(): quarter days 0..MaxNowQuarters
MaxOptions == 3      \* options of the chain given to extract_iv
MaxEvents == 4       \* key presses and button clicks handled by the click trader
MaxOrders == 2       \* orders placed by the click trader
MaxPosition == 1     \* position of the account at the start: -MaxPosition..MaxPosition
MaxFill == 2         \* fill prices and average costs, in ticks: 1..MaxFill
MaxQuantity == 2     \* values of the quantity input: 0..MaxQuantity
NumProcs == 2        \* processes allocating a client ID side by side
MaxMoveHalves == 4   \* one-sigma moves of calculate_sigma_bands: k/2 for k in -1..MaxMoveHalves

----------------------------------------------------------------------------
(* Exact arithmetic standing for Python float arithmetic *)

Abs(n) == IF n < 0 THEN -n ELSE n

Sign(n) == IF n < 0 THEN -1 ELSE IF n > 0 THEN 1 ELSE 0

RECURSIVE GCD(_, _)
GCD(a, b) == IF b = 0 THEN a ELSE GCD(b, a % b)

NaN == <<0, 0>>

IsNaN(a) == a[2] = 0

\* the rational n/d in lowest terms, d # 0
Rat(n, d) ==
    LET g == GCD(Abs(n), Abs(d))
        s == IF d < 0 THEN -1 ELSE 1
    IN  <<(s * n) \div g, (s * d) \div g>>

Float(n) == <<n, 1>>

FAdd(a, b) ==
    IF IsNaN(a) \/ IsNaN(b) THEN NaN
    ELSE Rat(a[1] * b[2] + b[1] * a[2], a[2] * b[2])

FSub(a, b) ==
    IF IsNaN(a) \/ IsNaN(b) THEN NaN
    ELSE Rat(a[1] * b[2] - b[1] * a[2], a[2] * b[2])

FMul(a, b) ==
    IF IsNaN(a) \/ IsNaN(b) THEN NaN
    ELSE Rat(a[1] * b[1], a[2] * b[2])

\* a / b for b # 0 (Python raises ZeroDivisionError for b = 0)
FDiv(a, b) ==
    IF IsNaN(a) \/ IsNaN(b) THEN NaN
    ELSE Rat(a[1] * b[2], a[2] * b[1])

\* comparisons: every comparison with NaN is False, NaN == NaN included
FEq(a, b) == ~IsNaN(a) /\ ~IsNaN(b) /\ a[1] * b[2] = b[1] * a[2]

FLt(a, b) == ~IsNaN(a) /\ ~IsNaN(b) /\ a[1] * b[2] < b[1] * a[2]

FGe(a, b) == ~IsNaN(a) /\ ~IsNaN(b) /\ a[1] * b[2] >= b[1] * a[2]

FMax(a, b) == IF FLt(a, b) THEN b ELSE a

\* sgn * sqrt(sq): the exact value of an expression that holds one math.sqrt
Surd(s, q) == [sgn |-> IF q[1] = 0 THEN 0 ELSE s, sq |-> q]

SurdOfFloat(a) == Surd(Sign(a[1]), FMul(a, a))

\* math.sqrt(a) for a >= 0
Sqrt(a) == Surd(1, a)

SurdMul(x, y) == Surd(x.sgn * y.sgn, FMul(x.sq, y.sq))

\* x / a for a # 0
SurdDiv(x, a) == Surd(x.sgn * Sign(a[1]), FDiv(x.sq, FMul(a, a)))

SurdGeZero(x) == x.sgn >= 0

----------------------------------------------------------------------------
(* roll.py: roll state from open interest *)

RATIO_PRE_ROLL == Rat(20, 100)

RATIO_CROSSOVER == Rat(50, 100)

RATIO_POST_ROLL == Rat(80, 100)

RollState == {"pre-roll", "rolling", "post-roll", "unknown"}

\* faulty variant: the pre-roll band closed at its upper end (<= for <)
calculate_roll_state_le(front_oi, back_oi) ==
    LET total == FAdd(front_oi, back_oi) IN
    IF FEq(total, Float(0)) THEN <<"unknown", Float(0)>>
    ELSE LET ratio == FDiv(back_oi, total) IN
         IF ~FLt(RATIO_PRE_ROLL, ratio) /\ ~IsNaN(ratio) THEN <<"pre-roll", ratio>>
         ELSE IF FGe(ratio, RATIO_POST_ROLL) THEN <<"post-roll", ratio>>
         ELSE <<"rolling", ratio>>

\* faulty variant: the no-signal test made on the deferred contract alone
calculate_roll_state_back_zero(front_oi, back_oi) ==
    LET total == FAdd(front_oi, back_oi) IN
    IF FEq(back_oi, Float(0)) THEN <<"unknown", Float(0)>>
    ELSE IF FEq(total, Float(0)) THEN <<"unknown", Float(0)>>
    ELSE LET ratio == FDiv(back_oi, total) IN
         IF FLt(ratio, RATIO_PRE_ROLL) THEN <<"pre-roll", ratio>>
         ELSE IF FGe(ratio, RATIO_POST_ROLL) THEN <<"post-roll", ratio>>
         ELSE <<"rolling", ratio>>

\* faulty variant: the ratio taken of the front contract's share
calculate_roll_state_front_share(front_oi, back_oi) ==
    LET total == FAdd(front_oi, back_oi) IN
    IF FEq(total, Float(0)) THEN <<"unknown", Float(0)>>
    ELSE LET ratio == FDiv(front_oi, total) IN
         IF FLt(ratio, RATIO_PRE_ROLL) THEN <<"pre-roll", ratio>>
         ELSE IF FGe(ratio, RATIO_POST_ROLL) THEN <<"post-roll", ratio>>
         ELSE <<"rolling", ratio>>

calculate_roll_state(front_oi, back_oi) ==
    LET total == FAdd(front_oi, back_oi) IN
    IF FEq(total, Float(0)) THEN <<"unknown", Float(0)>>
    ELSE LET ratio == FDiv(back_oi, total) IN
         IF FLt(ratio, RATIO_PRE_ROLL) THEN <<"pre-roll", ratio>>
         ELSE IF FGe(ratio, RATIO_POST_ROLL) THEN <<"post-roll", ratio>>
         ELSE <<"rolling", ratio>>

----------------------------------------------------------------------------
(* contracts.py: the symbol database.  Three of its entries are modelled,  *)
(* in the order the dict lists them; a date string YYYYMMDD is the integer *)
(* it spells, so that string order is integer order and expiry[4:6] is the *)
(* month number.                                                           *)

FUTURES_DATABASE ==
    [ES  |-> [exchange |-> "CME", liquid_months |-> <<"H", "M", "U", "Z">>],
     NQ  |-> [exchange |-> "CME", liquid_months |-> <<"H", "M", "U", "Z">>],
     EUR |-> [exchange |-> "CME", liquid_months |-> <<"H", "M", "U", "Z">>]]

\* FUTURES_DATABASE.keys(), in insertion order
DatabaseKeys == <<"ES", "NQ", "EUR">>

SYMBOL_ALIASES == [x \in {"6E"} |-> "EUR"]

MONTH_CODES ==
    [F |-> 1, G |-> 2, H |-> 3, J |-> 4, K |-> 5, N |-> 7,
     M |-> 6, Q |-> 8, U |-> 9, V |-> 10, X |-> 11, Z |-> 12]

\* the strings the model passes around, and str.upper on them
Strings == {"ES", "NQ", "EUR", "6E", "es", "XX"}

Upper(s) == IF s = "es" THEN "ES" ELSE s

\* the place of each string in the order of Python's string comparison
StrRank(x) ==
    CASE x = "6E" -> 1 [] x = "ES" -> 2 [] x = "EUR" -> 3
      [] x = "NQ" -> 4 [] x = "XX" -> 5 [] x = "es" -> 6

resolve_symbol(symbol) ==
    LET up == Upper(symbol) IN
    IF up \in DOMAIN SYMBOL_ALIASES THEN SYMBOL_ALIASES[up] ELSE up

\* None when the symbol is not in the database
get_symbol_info(symbol) ==
    LET s == resolve_symbol(Upper(symbol)) IN
    IF s \in DOMAIN FUTURES_DATABASE THEN FUTURES_DATABASE[s] ELSE None

Range(f) == {f[i] : i \in DOMAIN f}

get_liquid_months(symbol) ==
    LET info == get_symbol_info(symbol) IN
    IF info = None THEN Range(MONTH_CODES)
    ELSE IF info.liquid_months = <<"A", "L", "L">> THEN Range(MONTH_CODES)
    ELSE {MONTH_CODES[code] : code \in Range(info.liquid_months) \cap DOMAIN MONTH_CODES}

\* list.sort(key=...) / sorted(): insertion sort on <<key, item>> pairs,
\* stable like Python's sort
RECURSIVE InsertSorted(_, _)
InsertSorted(p, ps) ==
    IF ps = <<>> THEN <<p>>
    ELSE IF p[1] < Head(ps)[1] THEN <<p>> \o ps
    ELSE <<Head(ps)>> \o InsertSorted(p, Tail(ps))

RECURSIVE SortedPairs(_)
SortedPairs(ps) ==
    IF ps = <<>> THEN <<>>
    ELSE InsertSorted(ps[Len(ps)], SortedPairs(SubSeq(ps, 1, Len(ps) - 1)))

\* key: the sort key of each item, as a function
SortedBy(xs, key) ==
    LET sorted == SortedPairs([i \in DOMAIN xs |-> <<key[xs[i]], xs[i]>>])
    IN  [i \in DOMAIN sorted |-> sorted[i][2]]

----------------------------------------------------------------------------
(* roll.py: roll status of one symbol *)

Date(y, m, d) == y * 10000 + m * 100 + d

\* date.today()
Today == Date(2025, 6, 1)

Contract(symbol, expiry, localSymbol) ==
    [symbol |-> symbol, lastTradeDateOrContractMonth |-> expiry,
     localSymbol |-> localSymbol]

\* the contracts the broker may list for a symbol: one expired, three ahead
ContractPool(symbol) ==
    {Contract(symbol, Date(2025, 3, 21), <<symbol, "H5">>),
     Contract(symbol, Date(2025, 6, 20), <<symbol, "M5">>),
     Contract(symbol, Date(2025, 7, 18), <<symbol, "N5">>),
     Contract(symbol, Date(2025, 9, 19), <<symbol, "U5">>)}

Raised == [raised |-> TRUE, value |-> None]

Returned(v) == [raised |-> FALSE, value |-> v]

\* details: what ib.reqContractDetailsAsync answered, or Raised
get_contract_chain(symbol0, details) ==
    LET symbol == resolve_symbol(Upper(symbol0)) IN
    IF details.raised THEN Raised
    ELSE IF details.value = <<>> THEN Returned(<<>>)
    ELSE LET liquid_months == get_liquid_months(symbol)
             Keep(c) == /\ ~(c.lastTradeDateOrContractMonth < Today)
                        /\ (c.lastTradeDateOrContractMonth \div 100) % 100
                               \in liquid_months
             filtered == SelectSeq(details.value, Keep)
             expiry == [c \in Range(filtered) |-> c.lastTradeDateOrContractMonth]
         IN  Returned(SortedBy(filtered, expiry))

\* mkt: whether reqMktData raised, and the futuresOpenInterest of each
\* contract's ticker after the wait
get_oi_snapshot(contracts, mkt) ==
    IF contracts = <<>> THEN Returned(<<>>)
    ELSE IF mkt.raised THEN Raised
    ELSE Returned([ls \in {contracts[i].localSymbol : i \in DOMAIN contracts} |->
                      LET i == CHOOSE j \in DOMAIN contracts :
                                  /\ contracts[j].localSymbol = ls
                                  /\ \A k \in DOMAIN contracts :
                                        contracts[k].localSymbol = ls => k <= j
                          oi == mkt.ticks[i]
                      IN  IF FEq(oi, oi) THEN oi ELSE Float(0)])

\* faulty variant: the crossover taken strictly (> for >=)
Recommendation_strict_crossover(state, ratio, front, back) ==
    IF state = "pre-roll" THEN <<"Trade", front.localSymbol>>
    ELSE IF state = "post-roll" THEN <<"Trade", back.localSymbol>>
    ELSE IF FLt(RATIO_CROSSOVER, ratio) THEN <<"Trade", back.localSymbol>>
    ELSE <<"Consider", back.localSymbol>>

Recommendation(state, ratio, front, back) ==
    IF state = "pre-roll" THEN <<"Trade", front.localSymbol>>
    ELSE IF state = "post-roll" THEN <<"Trade", back.localSymbol>>
    ELSE IF FGe(ratio, RATIO_CROSSOVER) THEN <<"Trade", back.localSymbol>>
    ELSE <<"Consider", back.localSymbol>>

RollStatus(symbol, state, ratio, front_contract, back_contract, front_oi, back_oi, recommendation) ==
    [symbol |-> symbol, state |-> state, ratio |-> ratio,
     front_contract |-> front_contract, back_contract |-> back_contract,
     front_oi |-> front_oi, back_oi |-> back_oi,
     recommendation |-> recommendation]

\* io: what the broker answers during the call: the contract details, whether
\* qualifyContractsAsync raises, and the market data
get_roll_status(symbol0, io) ==
    LET symbol == resolve_symbol(Upper(symbol0))
        chain_result == get_contract_chain(symbol, io.details)
    IN  IF chain_result.raised THEN Raised
        ELSE LET chain == chain_result.value IN
             IF Len(chain) < 2
             THEN Returned(RollStatus(symbol, "unknown", Float(0),
                                      IF chain # <<>> THEN chain[1] ELSE None,
                                      None, Float(0), Float(0),
                                      <<"Insufficient contracts">>))
             ELSE LET front == chain[1]
                      back == chain[2]
                  IN  IF io.qualify_raises THEN Raised
                      ELSE LET oi_result == get_oi_snapshot(<<front, back>>, io.mkt) IN
                           IF oi_result.raised THEN Raised
                           ELSE LET oi_data == oi_result.value
                                    front_oi == IF front.localSymbol \in DOMAIN oi_data
                                                THEN oi_data[front.localSymbol]
                                                ELSE Float(0)
                                    back_oi == IF back.localSymbol \in DOMAIN oi_data
                                               THEN oi_data[back.localSymbol]
                                               ELSE Float(0)
                                    sr == calculate_roll_state(front_oi, back_oi)
                                IN  Returned(RollStatus(symbol, sr[1], sr[2], front, back,
                                                        front_oi, back_oi,
                                                        Recommendation(sr[1], sr[2],
                                                                       front, back)))

Readings == {Float(k) : k \in 0..MaxReading} \cup {NaN}

\* lists of distinct contracts of the pool, in any order
DetailLists(symbol) ==
    {d \in UNION {[1..n -> ContractPool(symbol)] : n \in 0..MaxDetails} :
        \A i, j \in DOMAIN d : d[i] = d[j] => i = j}

NoMarketData == [raised |-> FALSE, ticks |-> <<Float(0), Float(0)>>]

\* the broker's answers to one get_roll_status call; an answer the call never
\* asks for is left at a fixed value
BrokerAnswers(symbol) ==
    {[details |-> Raised, qualify_raises |-> FALSE, mkt |-> NoMarketData]}
    \cup UNION {
        IF Len(get_contract_chain(symbol, Returned(d)).value) < 2
        THEN {[details |-> Returned(d), qualify_raises |-> FALSE,
               mkt |-> NoMarketData]}
        ELSE {[details |-> Returned(d), qualify_raises |-> TRUE,
               mkt |-> NoMarketData],
              [details |-> Returned(d), qualify_raises |-> FALSE,
               mkt |-> [raised |-> TRUE, ticks |-> <<>>]]}
             \cup {[details |-> Returned(d), qualify_raises |-> FALSE,
                    mkt |-> [raised |-> FALSE, ticks |-> <<f, b>>]] :
                       f \in Readings, b \in Readings}
        : d \in DetailLists(symbol)}

\* faulty variant: the crossover taken strictly (> for >=)
ActiveContractOf_strict(status_result) ==
    IF status_result.raised THEN Raised
    ELSE LET status == status_result.value IN
         IF status.state = "unknown" THEN Returned(status.front_contract)
         ELSE IF status.state = "post-roll" \/ FLt(RATIO_CROSSOVER, status.ratio)
         THEN Returned(status.back_contract)
         ELSE Returned(status.front_contract)

\* lines 253-259: the choice made on the status get_roll_status returned, or
\* its exception passed on
ActiveContractOf(status_result) ==
    IF status_result.raised THEN Raised
    ELSE LET status == status_result.value IN
         IF status.state = "unknown" THEN Returned(status.front_contract)
         ELSE IF status.state = "post-roll" \/ FGe(status.ratio, RATIO_CROSSOVER)
         THEN Returned(status.back_contract)
         ELSE Returned(status.front_contract)

get_active_contract(symbol, io) == ActiveContractOf(get_roll_status(symbol, io))

----------------------------------------------------------------------------
(* stdev.py: expected move from implied volatility *)

SecondsPerDay == 86400

DaysPerYear == 365

Timeframe == {"daily", "weekly", "expiration", "custom"}

\* round(x * 10) the way "{:.1f}" rounds: to nearest, ties to even
Tenths(x) ==
    LET n == x[1] * 10
        d == x[2]
        lo == n \div d
        r == n - lo * d
    IN  IF 2 * r < d THEN lo
        ELSE IF 2 * r > d THEN lo + 1
        ELSE IF lo % 2 = 0 THEN lo ELSE lo + 1

\* datetime.strptime(expiration, "%Y%m%d") as seconds: an expiration string
\* is <<day>>, the day's ordinal, and parses to that day's midnight; the
\* empty string <<>> does not parse
strptime(expiration) == expiration[1] * SecondsPerDay

\* faulty variant: the floor at 0 left out
calculate_days_to_expiration_no_floor(expiration, now) ==
    IF expiration = <<>> THEN [raised |-> "ValueError", value |-> None]
    ELSE [raised |-> "none",
          value |-> Rat(strptime(expiration) - now, SecondsPerDay)]

calculate_days_to_expiration(expiration, now) ==
    IF expiration = <<>> THEN [raised |-> "ValueError", value |-> None]
    ELSE LET exp_date == strptime(expiration)
             delta == exp_date - now
         IN  [raised |-> "none",
              value |-> FMax(Rat(delta, SecondsPerDay), Float(0))]

\* faulty variant: a 360-day year
ExpectedMoveFor_360(extracted_iv, tf_name, days) ==
    LET price == extracted_iv.underlying_price
        iv == extracted_iv.atm_iv
        year_fraction == FDiv(days, Float(360))
    IN  IF FLt(year_fraction, Float(0))
        THEN [raised |-> "ValueError", value |-> None]
        ELSE LET expected_move ==
                     SurdMul(SurdOfFloat(FMul(price, iv)), Sqrt(year_fraction))
             IN  IF FEq(price, Float(0))
                 THEN [raised |-> "ZeroDivisionError", value |-> None]
                 ELSE [raised |-> "none",
                       value |-> [symbol |-> extracted_iv.symbol,
                                  underlying_price |-> price,
                                  iv |-> iv,
                                  timeframe |-> tf_name,
                                  days |-> days,
                                  expected_move |-> expected_move,
                                  move_percent |->
                                      SurdMul(SurdDiv(expected_move, price),
                                              SurdOfFloat(Float(100)))]]

\* lines 278-292: the formula and the result, once days is known
ExpectedMoveFor(extracted_iv, tf_name, days) ==
    LET price == extracted_iv.underlying_price
        iv == extracted_iv.atm_iv
        year_fraction == FDiv(days, Float(DaysPerYear))
    IN  IF FLt(year_fraction, Float(0))
        THEN [raised |-> "ValueError", value |-> None]      \* math.sqrt
        ELSE LET expected_move ==
                     SurdMul(SurdOfFloat(FMul(price, iv)), Sqrt(year_fraction))
             IN  IF FEq(price, Float(0))
                 THEN [raised |-> "ZeroDivisionError", value |-> None]
                 ELSE [raised |-> "none",
                       value |-> [symbol |-> extracted_iv.symbol,
                                  underlying_price |-> price,
                                  iv |-> iv,
                                  timeframe |-> tf_name,
                                  days |-> days,
                                  expected_move |-> expected_move,
                                  move_percent |->
                                      SurdMul(SurdDiv(expected_move, price),
                                              SurdOfFloat(Float(100)))]]

\* faulty variant: the week cut short at the expiration
calculate_expected_move_week_to_expiration(extracted_iv, timeframe, custom_days, now) ==
    IF timeframe = "daily"
    THEN ExpectedMoveFor(extracted_iv, <<"1 day">>, Float(1))
    ELSE IF timeframe \in {"weekly", "expiration"}
    THEN LET dte == calculate_days_to_expiration(extracted_iv.expiration, now)
         IN  IF dte.raised # "none" THEN dte
             ELSE IF timeframe = "weekly"
             THEN ExpectedMoveFor(extracted_iv, <<"1 week">>,
                                  IF FLt(dte.value, Float(7)) THEN dte.value
                                  ELSE Float(7))
             ELSE ExpectedMoveFor(extracted_iv,
                                  <<Tenths(dte.value), "days (to exp)">>,
                                  dte.value)
    ELSE IF timeframe = "custom"
    THEN IF custom_days = None
         THEN [raised |-> "ValueError", value |-> None]
         ELSE ExpectedMoveFor(extracted_iv, <<Tenths(custom_days), "days">>,
                              custom_days)
    ELSE [raised |-> "ValueError", value |-> None]

calculate_expected_move(extracted_iv, timeframe, custom_days, now) ==
    IF timeframe = "daily"
    THEN ExpectedMoveFor(extracted_iv, <<"1 day">>, Float(1))
    ELSE IF timeframe = "weekly"
    THEN ExpectedMoveFor(extracted_iv, <<"1 week">>, Float(7))
    ELSE IF timeframe = "expiration"
    THEN LET dte == calculate_days_to_expiration(extracted_iv.expiration, now)
         IN  IF dte.raised # "none" THEN dte
             ELSE ExpectedMoveFor(extracted_iv,
                                  <<Tenths(dte.value), "days (to exp)">>,
                                  dte.value)
    ELSE IF timeframe = "custom"
    THEN IF custom_days = None
         THEN [raised |-> "ValueError", value |-> None]
         ELSE ExpectedMoveFor(extracted_iv, <<Tenths(custom_days), "days">>,
                              custom_days)
    ELSE [raised |-> "ValueError", value |-> None]

----------------------------------------------------------------------------
(* stdev.py: sigma bands around the price.  The bands add and subtract the *)
(* one-sigma move, so they are computed where it is rational.              *)

\* the non-negative integer whose square is n
IRoot(n) == CHOOSE k \in 0..n : k * k = n

\* the float a signed square root stands for, its square being the square
\* of a rational
FloatOfSurd(x) == <<x.sgn * IRoot(x.sq[1]), IRoot(x.sq[2])>>

SIGMA_PROBABILITIES ==
    1 :> Rat(6827, 10000) @@ 2 :> Rat(9545, 10000) @@ 3 :> Rat(9973, 10000)

SigmaBand(sigma, probability, lower, upper) ==
    [sigma |-> sigma, probability |-> probability, lower |-> lower, upper |-> upper]

\* faulty variant: the one-sigma move used for every band
calculate_sigma_bands_one_move(expected_move) ==
    LET price == expected_move.underlying_price
        move_1sigma == FloatOfSurd(expected_move.expected_move)
        bands == [sigma \in {1, 2, 3} |->
                     SigmaBand(sigma, SIGMA_PROBABILITIES[sigma],
                               FSub(price, move_1sigma), FAdd(price, move_1sigma))]
    IN  [symbol |-> expected_move.symbol,
         underlying_price |-> price,
         timeframe |-> expected_move.timeframe,
         one_sigma |-> bands[1],
         two_sigma |-> bands[2],
         three_sigma |-> bands[3]]

calculate_sigma_bands(expected_move) ==
    LET price == expected_move.underlying_price
        move_1sigma == FloatOfSurd(expected_move.expected_move)
        bands == [sigma \in {1, 2, 3} |->
                     LET move == FMul(move_1sigma, Float(sigma))
                     IN  SigmaBand(sigma, SIGMA_PROBABILITIES[sigma],
                                   FSub(price, move), FAdd(price, move))]
    IN  [symbol |-> expected_move.symbol,
         underlying_price |-> price,
         timeframe |-> expected_move.timeframe,
         one_sigma |-> bands[1],
         two_sigma |-> bands[2],
         three_sigma |-> bands[3]]

----------------------------------------------------------------------------
(* stdev.py: the at-the-money implied volatility of an options chain *)

ATMOption(expiration, strike, right, model_iv) ==
    [symbol |-> "ES", expiration |-> expiration, strike |-> strike,
     right |-> right, model_iv |-> model_iv]

\* lines 108-113: the last option of the list at the strike with the right
AtmOptionOf(chain_result, right) ==
    LET options == chain_result.options
        found == {i \in DOMAIN options :
                     /\ options[i].strike = chain_result.atm_strike
                     /\ options[i].right = right}
    IN  IF found = {} THEN None
        ELSE options[CHOOSE i \in found : \A j \in found : j <= i]

\* faulty variant: the call's volatility alone when the call has one
extract_iv_call_first(chain_result) ==
    LET atm_call == AtmOptionOf(chain_result, "C")
        atm_put == AtmOptionOf(chain_result, "P")
    IN  IF atm_call = None /\ atm_put = None
        THEN [raised |-> "ValueError", value |-> None]
        ELSE LET call_iv == IF atm_call # None THEN atm_call.model_iv ELSE None
                 put_iv == IF atm_put # None THEN atm_put.model_iv ELSE None
             IN  IF call_iv = None /\ put_iv = None
                 THEN [raised |-> "ValueError", value |-> None]
                 ELSE [raised |-> "none",
                       value |-> [symbol |-> chain_result.symbol,
                                  expiration |-> chain_result.options[1].expiration,
                                  underlying_price |-> chain_result.underlying_price,
                                  atm_strike |-> chain_result.atm_strike,
                                  atm_iv |-> IF call_iv # None THEN call_iv ELSE put_iv,
                                  call_iv |-> call_iv,
                                  put_iv |-> put_iv,
                                  iv_source |-> "model"]]

extract_iv(chain_result) ==
    LET atm_strike == chain_result.atm_strike
        atm_call == AtmOptionOf(chain_result, "C")
        atm_put == AtmOptionOf(chain_result, "P")
    IN  IF atm_call = None /\ atm_put = None
        THEN [raised |-> "ValueError", value |-> None]
        ELSE LET call_iv == IF atm_call # None THEN atm_call.model_iv ELSE None
                 put_iv == IF atm_put # None THEN atm_put.model_iv ELSE None
                 valid_ivs == SelectSeq(<<call_iv, put_iv>>, LAMBDA iv : iv # None)
             IN  IF valid_ivs = <<>>
                 THEN [raised |-> "ValueError", value |-> None]
                 ELSE LET sum == IF Len(valid_ivs) = 1 THEN valid_ivs[1]
                                 ELSE FAdd(valid_ivs[1], valid_ivs[2])
                          atm_iv == FDiv(sum, Float(Len(valid_ivs)))
                          expiration == IF chain_result.options # <<>>
                                        THEN chain_result.options[1].expiration
                                        ELSE <<>>
                      IN  [raised |-> "none",
                           value |-> [symbol |-> chain_result.symbol,
                                      expiration |-> expiration,
                                      underlying_price |-> chain_result.underlying_price,
                                      atm_strike |-> atm_strike,
                                      atm_iv |-> atm_iv,
                                      call_iv |-> call_iv,
                                      put_iv |-> put_iv,
                                      iv_source |-> "model"]]

----------------------------------------------------------------------------
(* client_id.py: client IDs allocated through lock files, one file per ID  *)
(* in ~/.iborker/locks, by processes running side by side                  *)

client_id_start == 1

TOOL_OFFSETS ==
    [t \in {"cli", "history", "contracts", "trader", "stdev"} |->
        IF t = "trader" THEN 10 ELSE IF t = "stdev" THEN 20 ELSE 0]

RANGE_SIZE == 10

\* the processes that allocate, and os.getpid() in each
Procs == 1..NumProcs

Pids == <<4015, 5005, 5115, 6215>>

\* processes outside the model: one alive and of the same user, one alive and
\* of another user, and a PID no process has
LivePid == 7001

ForeignPid == 7002

DeadPid == 7003

\* the tools the modelled processes run
Tools == {"cli", "trader"}

\* the IDs of the ranges of these tools
LockIds ==
    {client_id_start + TOOL_OFFSETS[t] + i : t \in Tools, i \in 0..(RANGE_SIZE - 1)}

\* a lock file: who created it (0: a process outside the model) and the PID
\* written in it, {} while nothing is written
NoFile == [exists |-> FALSE, creator |-> 0, content |-> {}]

File(creator, content) == [exists |-> TRUE, creator |-> creator, content |-> content]

\* trader.py: TraderState() as far as the keyboard goes, nothing handled yet
InitTrader ==
    /\ highlighted_action = "none"
    /\ events = <<>>
    /\ dispatched = <<>>

\* trader.py lines 25-47 and 62: TraderState() and ClickTrader() before connect()
InitOrders ==
    /\ ib = FALSE
    /\ position = 0
    /\ avg_cost = 0
    /\ quantity = 1
    /\ daily_realized_points = 0
    /\ orders = <<>>
    /\ account_position = 0
    /\ updates = <<>>

\* no process has started and the lock directory is empty
InitLockIdle ==
    /\ tool = [p \in Procs |-> "cli"]
    /\ ppc = [p \in Procs |-> "start"]
    /\ cand = [p \in Procs |-> 0]
    /\ readpid = [p \in Procs |-> 0]
    /\ client_id = [p \in Procs |-> {}]
    /\ created = [p \in Procs |-> {}]
    /\ files = [id \in LockIds |-> NoFile]
    /\ stolen = {}
    /\ others = {}

----------------------------------------------------------------------------
(* The calculation functions, called on every argument of the bounded sets *)

OIArgs == {Float(k) : k \in -1..MaxOI} \cup {NaN}

Prices == {Float(p) : p \in -1..MaxPrice} \cup {Float(100)}

IVs == {Rat(k, 5) : k \in -1..MaxIvFifths}

Expirations == {<<>>} \cup {<<d>> : d \in 0..MaxExpDay}

Nows == {q * (SecondsPerDay \div 4) : q \in 0..MaxNowQuarters}

CustomDays == {None, Float(-1), Float(0), Rat(1, 2), Float(1), Float(7),
               Float(DaysPerYear)}

TimeframeArgs == Timeframe \cup {"monthly"}

ExtractedIVs ==
    {[symbol |-> "ES", expiration |-> expiration,
      underlying_price |-> price, atm_iv |-> iv] :
        expiration \in Expirations, price \in Prices, iv \in IVs}

RollStateCalls ==
    {[fn |-> "calculate_roll_state", front_oi |-> front_oi, back_oi |-> back_oi] :
        front_oi \in OIArgs, back_oi \in OIArgs}

ExpectedMoveCalls ==
    {[fn |-> "calculate_expected_move", extracted_iv |-> extracted_iv,
      timeframe |-> timeframe, custom_days |-> custom_days, now |-> now] :
        extracted_iv \in ExtractedIVs, timeframe \in TimeframeArgs,
        custom_days \in CustomDays, now \in Nows}

\* one-sigma moves from -0.5 in steps of 0.5
Moves == {Rat(k, 2) : k \in -1..MaxMoveHalves}

ExpectedMoves ==
    {[symbol |-> "ES", underlying_price |-> price, iv |-> Rat(1, 5),
      timeframe |-> <<"1 day">>, days |-> Float(1),
      expected_move |-> SurdOfFloat(move),
      move_percent |-> IF FEq(price, Float(0)) THEN SurdOfFloat(Float(0))
                       ELSE SurdOfFloat(FMul(FDiv(move, price), Float(100)))] :
        price \in Prices, move \in Moves}

SigmaBandsCalls ==
    {[fn |-> "calculate_sigma_bands", expected_move |-> expected_move] :
        expected_move \in ExpectedMoves}

\* the strike at the money and one above it
Strikes == {Float(100), Float(105)}

ModelIVs == {None, Rat(18, 100), Rat(22, 100)}

ATMOptions ==
    {ATMOption(<<1>>, strike, right, model_iv) :
        strike \in Strikes, right \in {"C", "P"}, model_iv \in ModelIVs}

OptionsChainResults ==
    {[symbol |-> "ES", exchange |-> "CME", underlying_price |-> Float(100),
      atm_strike |-> Float(100), options |-> options] :
        options \in UNION {[1..n -> ATMOptions] : n \in 0..MaxOptions}}

ExtractIVCalls ==
    {[fn |-> "extract_iv", chain_result |-> chain_result] :
        chain_result \in OptionsChainResults}

\* a symbol as the caller may spell it, and the broker's answers to the call
ActiveContractCalls ==
    UNION {{[fn |-> "get_active_contract", symbol |-> symbol, io |-> io] :
               io \in BrokerAnswers(resolve_symbol(Upper(symbol)))} :
           symbol \in {"ES", "6E"}}

\* what get_active_contract returns or raises for each of these calls
ActiveContractResults ==
    [c \in ActiveContractCalls |-> get_active_contract(c.symbol, c.io)]

\* the call is made and its result (or the exception it raised) recorded
CallCalculateRollState ==
    /\ call.fn = "calculate_roll_state"
    /\ ret = None
    /\ ret' = calculate_roll_state(call.front_oi, call.back_oi)
    /\ UNCHANGED <<call, rollVars, snapVars, lockVars, traderVars, orderVars>>

CallCalculateExpectedMove ==
    /\ call.fn = "calculate_expected_move"
    /\ ret = None
    /\ ret' = calculate_expected_move(call.extracted_iv, call.timeframe,
                                      call.custom_days, call.now)
    /\ UNCHANGED <<call, rollVars, snapVars, lockVars, traderVars, orderVars>>

CallCalculateSigmaBands ==
    /\ call.fn = "calculate_sigma_bands"
    /\ ret = None
    /\ ret' = calculate_sigma_bands(call.expected_move)
    /\ UNCHANGED <<call, rollVars, snapVars, lockVars, traderVars, orderVars>>

CallExtractIV ==
    /\ call.fn = "extract_iv"
    /\ ret = None
    /\ ret' = extract_iv(call.chain_result)
    /\ UNCHANGED <<call, rollVars, snapVars, lockVars, traderVars, orderVars>>

CallGetActiveContract ==
    /\ call.fn = "get_active_contract"
    /\ ret = None
    /\ ret' = ActiveContractResults[call]
    /\ UNCHANGED <<call, rollVars, snapVars, lockVars, traderVars, orderVars>>

InitRoll ==
    /\ cmd = "none"
    /\ pc = "idle"
    /\ todo = <<>>
    /\ statuses = <<>>
    /\ fetched = <<>>
    /\ table = None
    /\ exit = "none"

InitSnapshot ==
    /\ oi_pc = "idle"
    /\ oi_contracts = <<>>
    /\ oi_i = 0
    /\ subscriptions = {}
    /\ tickers = <<>>
    /\ oi_dict = <<>>

InitCalc ==
    /\ call \in RollStateCalls \cup ExpectedMoveCalls \cup SigmaBandsCalls
                \cup ExtractIVCalls \cup ActiveContractCalls
    /\ ret = None
    /\ InitRoll
    /\ InitSnapshot
    /\ InitLockIdle
    /\ InitTrader
    /\ InitOrders

NextCalc ==
    \/ CallCalculateRollState
    \/ CallCalculateExpectedMove
    \/ CallCalculateSigmaBands
    \/ CallExtractIV
    \/ CallGetActiveContract

SpecCalc == InitCalc /\ [][NextCalc]_vars

----------------------------------------------------------------------------
(* roll.py: the `roll status` and `roll today` commands *)

\* what the user may type: a symbol, a lower-case symbol, an alias, an unknown
\* what get_roll_status returns or raises for a symbol of the database, over
\* every answer of the broker
RollStatusResults ==
    [symbol \in Range(DatabaseKeys) |->
        {get_roll_status(symbol, io) : io \in BrokerAnswers(symbol)}]

ArgStrings == {"ES", "es", "6E", "XX"}

ArgLists == UNION {[1..n -> ArgStrings] : n \in 0..MaxArgs}

Fetch(symbol, r) ==
    [symbol |-> symbol, raised |-> r.raised, status |-> r.value]

ErrorStatus(symbol) ==
    RollStatus(symbol, "unknown", Float(0), None, None, Float(0), Float(0),
               <<"Error fetching data">>)

\* status_cmd up to the start of _status_impl's loop: argument checks, then
\* connect("roll"), which may raise
StatusCmd ==
    /\ pc = "idle"
    /\ cmd' = "status"
    /\ \E symbols \in ArgLists, connected \in BOOLEAN :
          LET resolved == [i \in DOMAIN symbols |-> resolve_symbol(Upper(symbols[i]))]
              InDatabase(x) == x \in DOMAIN FUTURES_DATABASE
              unknown == SelectSeq(resolved, LAMBDA x : ~InDatabase(x))
          IN  IF symbols = <<>> \/ unknown # <<>> \/ ~connected
              THEN /\ pc' = "done"
                   /\ exit' = "error"
                   /\ todo' = <<>>
              ELSE /\ pc' = "loop"
                   /\ exit' = "none"
                   /\ todo' = resolved
    /\ UNCHANGED <<calcVars, snapVars, lockVars, traderVars, orderVars, statuses, fetched, table>>

\* faulty variant: a failed fetch replaced by a placeholder row, the loop going on
StatusStep_placeholder ==
    /\ cmd = "status" /\ pc = "loop" /\ todo # <<>>
    /\ \E r \in RollStatusResults[Head(todo)] :
          /\ fetched' = Append(fetched, Fetch(Head(todo), r))
          /\ statuses' = Append(statuses, IF r.raised THEN ErrorStatus(Head(todo))
                                          ELSE r.value)
    /\ todo' = Tail(todo)
    /\ UNCHANGED <<calcVars, snapVars, lockVars, traderVars, orderVars, cmd, pc, table, exit>>

\* one turn of _status_impl's loop; an exception leaves the loop and
\* status_cmd turns it into typer.Exit(1)
StatusStep ==
    /\ cmd = "status" /\ pc = "loop" /\ todo # <<>>
    /\ \E r \in RollStatusResults[Head(todo)] :
          /\ fetched' = Append(fetched, Fetch(Head(todo), r))
          /\ IF r.raised
             THEN /\ pc' = "done"
                  /\ exit' = "error"
                  /\ UNCHANGED statuses
             ELSE /\ statuses' = Append(statuses, r.value)
                  /\ UNCHANGED <<pc, exit>>
    /\ todo' = Tail(todo)
    /\ UNCHANGED <<calcVars, snapVars, lockVars, traderVars, orderVars, cmd, table>>

\* the loop is over: _print_status_table(statuses)
StatusFinish ==
    /\ cmd = "status" /\ pc = "loop" /\ todo = <<>>
    /\ table' = statuses
    /\ pc' = "done"
    /\ exit' = "ok"
    /\ UNCHANGED <<calcVars, snapVars, lockVars, traderVars, orderVars, cmd, todo, statuses, fetched>>

\* today_cmd up to the start of get_all_roll_statuses' loop
TodayCmd ==
    /\ pc = "idle"
    /\ cmd' = "today"
    /\ \E connected \in BOOLEAN :
          IF connected
          THEN /\ pc' = "loop"
               /\ exit' = "none"
               /\ todo' = SortedBy(DatabaseKeys, [x \in Strings |-> StrRank(x)])
          ELSE /\ pc' = "done"
               /\ exit' = "error"
               /\ todo' = <<>>
    /\ UNCHANGED <<calcVars, snapVars, lockVars, traderVars, orderVars, statuses, fetched, table>>

\* faulty variant: a symbol whose fetch fails is skipped, nothing appended for it
TodayStep_skip ==
    /\ cmd = "today" /\ pc = "loop" /\ todo # <<>>
    /\ \E r \in RollStatusResults[Head(todo)] :
          /\ fetched' = Append(fetched, Fetch(Head(todo), r))
          /\ statuses' = IF r.raised THEN statuses ELSE Append(statuses, r.value)
    /\ todo' = Tail(todo)
    /\ UNCHANGED <<calcVars, snapVars, lockVars, traderVars, orderVars, cmd, pc, table, exit>>

\* one turn of get_all_roll_statuses' loop: try / except Exception
TodayStep ==
    /\ cmd = "today" /\ pc = "loop" /\ todo # <<>>
    /\ \E r \in RollStatusResults[Head(todo)] :
          /\ fetched' = Append(fetched, Fetch(Head(todo), r))
          /\ statuses' = Append(statuses, IF r.raised THEN ErrorStatus(Head(todo))
                                          ELSE r.value)
    /\ todo' = Tail(todo)
    /\ UNCHANGED <<calcVars, snapVars, lockVars, traderVars, orderVars, cmd, pc, table, exit>>

\* get_all_roll_statuses returns; _today_impl prints the rolling symbols
TodayFinish ==
    /\ cmd = "today" /\ pc = "loop" /\ todo = <<>>
    /\ LET rolling == SelectSeq(statuses, LAMBDA st : st.state = "rolling")
       IN  table' = IF rolling = <<>> THEN None ELSE rolling
    /\ pc' = "done"
    /\ exit' = "ok"
    /\ UNCHANGED <<calcVars, snapVars, lockVars, traderVars, orderVars, cmd, todo, statuses, fetched>>

Init ==
    /\ call = [fn |-> "none"]
    /\ ret = None
    /\ InitRoll
    /\ InitSnapshot
    /\ InitLockIdle
    /\ InitTrader
    /\ InitOrders

Next ==
    \/ StatusCmd
    \/ StatusStep
    \/ StatusFinish
    \/ TodayCmd
    \/ TodayStep
    \/ TodayFinish

Spec == Init /\ [][Next]_vars

----------------------------------------------------------------------------
(* Properties of the calculation functions, checked under SpecCalc *)

RollStateCalled == call.fn = "calculate_roll_state" /\ ret # None

ExpectedMoveCalled == call.fn = "calculate_expected_move" /\ ret # None

\* C1: for front_oi, back_oi >= 0 with a positive total, calculate_roll_state
\* returns PRE_ROLL iff back/total < 0.20, POST_ROLL iff back/total >= 0.80,
\* ROLLING iff 0.20 <= back/total < 0.80, and never UNKNOWN.  The bands are
\* stated on integers: back/total < 20/100 iff 100 * back < 20 * total.
C1_RollStateBands ==
    RollStateCalled =>
        LET f == call.front_oi
            b == call.back_oi
            t == f[1] + b[1]
        IN  (~IsNaN(f) /\ ~IsNaN(b) /\ f[1] >= 0 /\ b[1] >= 0 /\ t > 0) =>
                /\ ret[1] \in {"pre-roll", "rolling", "post-roll"}
                /\ (ret[1] = "pre-roll") <=> (100 * b[1] < 20 * t)
                /\ (ret[1] = "post-roll") <=> (100 * b[1] >= 80 * t)
                /\ (ret[1] = "rolling") <=>
                       (100 * b[1] >= 20 * t /\ 100 * b[1] < 80 * t)

\* C1 witness: the ratio is exactly 0.20 (4 and 1) and the state is ROLLING
C1_Witness ==
    /\ RollStateCalled
    /\ call.front_oi = Float(4) /\ call.back_oi = Float(1)
    /\ ret = <<"rolling", Rat(1, 5)>>

\* C2: calculate_roll_state(0, 0) returns (UNKNOWN, 0.0), and UNKNOWN is
\* returned for no input other than a total open interest of 0.
C2_UnknownOnlyForZeroTotal ==
    RollStateCalled =>
        LET f == call.front_oi
            b == call.back_oi
            zero_total == ~IsNaN(f) /\ ~IsNaN(b) /\ f[1] + b[1] = 0
        IN  /\ (f = Float(0) /\ b = Float(0)) => ret = <<"unknown", Float(0)>>
            /\ (ret[1] = "unknown") <=> zero_total
            /\ zero_total => ret[2] = Float(0)

\* C2 witness: the call with both open interests 0 has returned
C2_Witness ==
    /\ RollStateCalled
    /\ call.front_oi = Float(0) /\ call.back_oi = Float(0)
    /\ ret = <<"unknown", Float(0)>>

\* the days value the call resolves for a custom timeframe is negative
NegativeDaysGiven ==
    /\ call.timeframe = "custom"
    /\ call.custom_days # None
    /\ FLt(call.custom_days, Float(0))

\* C7 (as claimed): calculate_expected_move fails, and returns no
\* ExpectedMove, whenever days < 0, or the underlying price <= 0, or the
\* implied volatility < 0.
C7_InvalidInputRejected ==
    ExpectedMoveCalled =>
        ((\/ NegativeDaysGiven
          \/ ~FLt(Float(0), call.extracted_iv.underlying_price)
          \/ FLt(call.extracted_iv.atm_iv, Float(0)))
            => ret.raised # "none")

\* C8 (as claimed): every ExpectedMove returned by calculate_expected_move
\* has expected_move >= 0 and move_percent >= 0.
C8_MoveNonNegative ==
    (ExpectedMoveCalled /\ ret.raised = "none") =>
        /\ SurdGeZero(ret.value.expected_move)
        /\ SurdGeZero(ret.value.move_percent)

\* the call returns whenever the formula is defined for its days: the
\* underlying price is not 0
PriceNonZero == call.extracted_iv.underlying_price[1] # 0

\* C10: horizon resolution.  daily uses days = 1, weekly days = 7, custom the
\* caller's custom_days and fails without it, expiration uses
\* (expiration - now) / 86400 floored at 0: never negative, so that an
\* expiration in the past gives a result for days = 0 and not a failure of
\* the square root.
C10_HorizonResolution ==
    ExpectedMoveCalled =>
        LET e == call.extracted_iv
            seconds == e.expiration[1] * 86400 - call.now
        IN  /\ (call.timeframe = "custom" /\ call.custom_days = None)
                   => ret.raised = "ValueError"
            /\ (call.timeframe = "expiration" /\ e.expiration # <<>> /\ PriceNonZero)
                   => ret.raised = "none"
            /\ ret.raised = "none" =>
                  /\ call.timeframe = "daily" => ret.value.days = <<1, 1>>
                  /\ call.timeframe = "weekly" => ret.value.days = <<7, 1>>
                  /\ call.timeframe = "custom" => ret.value.days = call.custom_days
                  /\ call.timeframe = "expiration" =>
                        /\ ret.value.days[1] >= 0 /\ ret.value.days[2] > 0
                        /\ IF seconds <= 0 THEN ret.value.days = <<0, 1>>
                           ELSE ret.value.days[1] * 86400 = seconds * ret.value.days[2]

\* C10 witness: expiration mode, the expiration a day in the past,
\* and the call returned with days = 0
C10_Witness ==
    /\ ExpectedMoveCalled
    /\ call.timeframe = "expiration"
    /\ call.extracted_iv.expiration = <<1>>
    /\ call.now = 2 * SecondsPerDay
    /\ ret.raised = "none"
    /\ ret.value.days = Float(0)

\* C11: calculate_expected_move returns expected_move = price * iv *
\* sqrt(days / 365) and move_percent = expected_move / price * 100.  The
\* square root is checked through its square and its sign: expected_move^2 =
\* price^2 * iv^2 * days / 365.  With days = 365 the move is price * iv
\* (price 100 and iv 0.20 give 20), with days = 0 it is 0, and
\* move_percent * price = expected_move * 100.
C11_ExpectedMoveFormula ==
    (ExpectedMoveCalled /\ ret.raised = "none") =>
        LET m == ret.value
            price == call.extracted_iv.underlying_price
            iv == call.extracted_iv.atm_iv
            days == m.days
            square == FDiv(FMul(FMul(FMul(price, price), FMul(iv, iv)), days),
                           Float(365))
        IN  /\ call.timeframe = "daily" => days = Float(1)
            /\ call.timeframe = "weekly" => days = Float(7)
            /\ call.timeframe = "custom" => days = call.custom_days
            /\ m.expected_move.sq = square
            /\ m.expected_move.sgn = Sign(price[1]) * Sign(iv[1]) * Sign(days[1])
            /\ days = Float(365) =>
                   /\ m.expected_move.sq = FMul(FMul(price, iv), FMul(price, iv))
                   /\ m.expected_move.sgn = Sign(price[1]) * Sign(iv[1])
            /\ (days = Float(365) /\ price = Float(100) /\ iv = Rat(20, 100)) =>
                   m.expected_move = [sgn |-> 1, sq |-> Float(20 * 20)]
            /\ days = Float(0) => m.expected_move = [sgn |-> 0, sq |-> Float(0)]
            /\ SurdMul(m.move_percent, SurdOfFloat(price))
                   = SurdMul(m.expected_move, SurdOfFloat(Float(100)))
            /\ m.move_percent.sgn = m.expected_move.sgn * Sign(price[1])
            /\ FMul(m.move_percent.sq, FMul(price, price))
                   = FMul(m.expected_move.sq, Float(100 * 100))

\* C11 witness: price 100, iv 0.20 and 365 days have given a move of 20
C11_Witness ==
    /\ ExpectedMoveCalled
    /\ call.timeframe = "custom" /\ call.custom_days = Float(365)
    /\ call.extracted_iv.underlying_price = Float(100)
    /\ call.extracted_iv.atm_iv = Rat(1, 5)
    /\ ret.raised = "none"
    /\ ret.value.expected_move = [sgn |-> 1, sq |-> Float(400)]
    /\ ret.value.move_percent = [sgn |-> 1, sq |-> Float(400)]

SigmaBandsCalled == call.fn = "calculate_sigma_bands" /\ ret # None

\* C12: for each sigma in {1, 2, 3} the band of calculate_sigma_bands has
\* lower = price - sigma * move, upper = price + sigma * move and the
\* probability of the table {1: 0.6827, 2: 0.9545, 3: 0.9973}; lower + upper
\* = 2 * price for every band, and for a non-negative move the bands are
\* nested around the price.
C12_SigmaBands ==
    SigmaBandsCalled =>
        LET price == call.expected_move.underlying_price
            sq == call.expected_move.expected_move.sq
            move == CHOOSE m \in Moves :
                        /\ FMul(m, m) = sq
                        /\ Sign(m[1]) = call.expected_move.expected_move.sgn
            band == 1 :> ret.one_sigma @@ 2 :> ret.two_sigma @@ 3 :> ret.three_sigma
            Le(a, b) == FGe(b, a)
        IN  /\ \A sigma \in {1, 2, 3} :
                  /\ band[sigma].sigma = sigma
                  /\ band[sigma].lower = FSub(price, FMul(Float(sigma), move))
                  /\ band[sigma].upper = FAdd(price, FMul(Float(sigma), move))
                  /\ FAdd(band[sigma].lower, band[sigma].upper)
                         = FMul(Float(2), price)
            /\ band[1].probability = Rat(6827, 10000)
            /\ band[2].probability = Rat(9545, 10000)
            /\ band[3].probability = Rat(9973, 10000)
            /\ move[1] >= 0 =>
                  /\ Le(band[3].lower, band[2].lower)
                  /\ Le(band[2].lower, band[1].lower)
                  /\ Le(band[1].lower, price)
                  /\ Le(price, band[1].upper)
                  /\ Le(band[1].upper, band[2].upper)
                  /\ Le(band[2].upper, band[3].upper)

\* C12 witness: price 100 and a move of 1.5 give the bands 98.5..101.5,
\* 97..103 and 95.5..104.5
C12_Witness ==
    /\ SigmaBandsCalled
    /\ call.expected_move.underlying_price = Float(100)
    /\ call.expected_move.expected_move = SurdOfFloat(Rat(3, 2))
    /\ ret.one_sigma = SigmaBand(1, Rat(6827, 10000), Rat(197, 2), Rat(203, 2))
    /\ ret.two_sigma = SigmaBand(2, Rat(9545, 10000), Float(97), Float(103))
    /\ ret.three_sigma = SigmaBand(3, Rat(9973, 10000), Rat(191, 2), Rat(209, 2))

ExtractIVCalled == call.fn = "extract_iv" /\ ret # None

\* C13: when the at-the-money call and put both carry an implied volatility,
\* extract_iv returns their mean as atm_iv (0.18 and 0.22 give 0.20); when
\* exactly one carries a value, atm_iv is that value; when neither does (no
\* option at the strike, or both volatilities absent) it raises ValueError
\* and returns nothing.  Of several options listed at the strike with the
\* same right, the last one is the at-the-money option.
C13_AtmIvIsMeanOfPresent ==
    ExtractIVCalled =>
        LET options == call.chain_result.options
            At(right) == {i \in DOMAIN options :
                             /\ options[i].strike = call.chain_result.atm_strike
                             /\ options[i].right = right}
            Last(S) == CHOOSE i \in S : \A j \in S : j <= i
            Carries(right) ==
                At(right) # {} /\ options[Last(At(right))].model_iv # None
            Iv(right) == options[Last(At(right))].model_iv
        IN  /\ (Carries("C") /\ Carries("P")) =>
                  /\ ret.raised = "none"
                  /\ FMul(Float(2), ret.value.atm_iv) = FAdd(Iv("C"), Iv("P"))
                  /\ (Iv("C") = Rat(18, 100) /\ Iv("P") = Rat(22, 100)) =>
                         ret.value.atm_iv = Rat(20, 100)
            /\ (Carries("C") /\ ~Carries("P")) =>
                  ret.raised = "none" /\ ret.value.atm_iv = Iv("C")
            /\ (~Carries("C") /\ Carries("P")) =>
                  ret.raised = "none" /\ ret.value.atm_iv = Iv("P")
            /\ (~Carries("C") /\ ~Carries("P")) =>
                  ret = [raised |-> "ValueError", value |-> None]

\* C13 witness: a call at 0.18 and a put at 0.22 at the strike gave 0.20
C13_Witness ==
    /\ ExtractIVCalled
    /\ call.chain_result.options
           = <<ATMOption(<<1>>, Float(100), "C", Rat(18, 100)),
               ATMOption(<<1>>, Float(100), "P", Rat(22, 100))>>
    /\ ret.raised = "none"
    /\ ret.value.atm_iv = Rat(1, 5)
    /\ ret.value.call_iv = Rat(18, 100) /\ ret.value.put_iv = Rat(22, 100)

\* what the call of the state returns when datetime.now() answers now
ExpectedMoveAt(now) ==
    calculate_expected_move(call.extracted_iv, call.timeframe,
                            call.custom_days, now)

ActiveContractReturned ==
    call.fn = "get_active_contract" /\ ret # None /\ ~ret.raised

\* the roll status the call of the state was given by get_roll_status
ActiveStatus == get_roll_status(call.symbol, call.io).value

----------------------------------------------------------------------------
(* Properties of the roll commands, checked under Spec *)

\* get_roll_status on a chain of two contracts of ES, listed latest first,
\* with the given open interest of the front and the deferred contract
ExampleStatus(front_oi, back_oi) ==
    get_roll_status("ES",
        [details |-> Returned(<<Contract("ES", Date(2025, 9, 19), <<"ES", "U5">>),
                                Contract("ES", Date(2025, 6, 20), <<"ES", "M5">>)>>),
         qualify_raises |-> FALSE,
         mkt |-> [raised |-> FALSE, ticks |-> <<Float(front_oi), Float(back_oi)>>]]).value

C3_Examples ==
    /\ ExampleStatus(10, 90).state = "post-roll"
    /\ ExampleStatus(10, 90).recommendation = <<"Trade", <<"ES", "U5">>>>
    /\ ExampleStatus(85, 15).state = "pre-roll"
    /\ ExampleStatus(85, 15).recommendation = <<"Trade", <<"ES", "M5">>>>
    /\ ExampleStatus(60, 40).state = "rolling"
    /\ ExampleStatus(60, 40).recommendation = <<"Consider", <<"ES", "U5">>>>
    /\ ExampleStatus(50, 50).state = "rolling"
    /\ ExampleStatus(50, 50).recommendation = <<"Trade", <<"ES", "U5">>>>

\* C3: the recommendation of a status built from a front contract F and a
\* back contract B is "Trade F" when PRE_ROLL, "Trade B" when POST_ROLL,
\* "Trade B" when ROLLING with ratio >= 0.50 and "Consider B" when ROLLING
\* with ratio < 0.50 (ratio >= 0.50 iff 2 * back_oi >= front_oi + back_oi).
C3_RecommendationText ==
    /\ C3_Examples
    /\ \A i \in DOMAIN statuses :
          LET st == statuses[i]
              f == st.front_oi[1]
              b == st.back_oi[1]
          IN  st.back_contract # None =>
                 /\ st.state = "pre-roll" =>
                       st.recommendation = <<"Trade", st.front_contract.localSymbol>>
                 /\ st.state = "post-roll" =>
                       st.recommendation = <<"Trade", st.back_contract.localSymbol>>
                 /\ (st.state = "rolling" /\ 2 * b >= f + b) =>
                       st.recommendation = <<"Trade", st.back_contract.localSymbol>>
                 /\ (st.state = "rolling" /\ 2 * b < f + b) =>
                       st.recommendation = <<"Consider", st.back_contract.localSymbol>>

\* C3 witness: `roll status` has built a ROLLING status at ratio 0.50 exactly
\* (recommendation "Trade B") after one below 0.50 (recommendation "Consider B")
C3_Witness ==
    /\ cmd = "status"
    /\ Len(statuses) = 2
    /\ statuses[1].state = "rolling" /\ statuses[1].ratio = Rat(1, 3)
    /\ statuses[1].recommendation = <<"Consider", <<"ES", "U5">>>>
    /\ statuses[2].state = "rolling" /\ statuses[2].ratio = Rat(1, 2)
    /\ statuses[2].recommendation = <<"Trade", <<"EUR", "U5">>>>

\* C4 (as claimed): every status whose state is UNKNOWN carries the
\* recommendation "Insufficient contracts" or "Error fetching data", also when
\* two contracts exist and both open-interest readings are 0 or NaN.
C4_UnknownCarriesPlaceholder ==
    \A i \in DOMAIN statuses :
        statuses[i].state = "unknown" =>
            statuses[i].recommendation \in
                {<<"Insufficient contracts">>, <<"Error fetching data">>}

\* C5: get_all_roll_statuses never aborts on a failed fetch; its list holds
\* one status per symbol visited, the symbols of the database in sorted order;
\* the status of a symbol whose fetch raised is UNKNOWN, ratio 0.0, no
\* contracts, "Error fetching data", and every other status is the one the
\* symbol's own fetch returned.
C5_BatchIsolatesFailures ==
    cmd = "today" =>
        /\ exit = "error" => fetched = <<>>
        /\ Len(statuses) = Len(fetched)
        /\ \A i \in DOMAIN statuses :
              /\ statuses[i].symbol = fetched[i].symbol
              /\ statuses[i].symbol \in DOMAIN FUTURES_DATABASE
              /\ \A j \in DOMAIN statuses :
                    i < j => StrRank(statuses[i].symbol) < StrRank(statuses[j].symbol)
              /\ IF fetched[i].raised
                 THEN statuses[i] =
                        [symbol |-> fetched[i].symbol, state |-> "unknown",
                         ratio |-> <<0, 1>>, front_contract |-> None,
                         back_contract |-> None, front_oi |-> <<0, 1>>,
                         back_oi |-> <<0, 1>>,
                         recommendation |-> <<"Error fetching data">>]
                 ELSE statuses[i] = fetched[i].status
        /\ (pc = "done" /\ exit = "ok") =>
              {statuses[i].symbol : i \in DOMAIN statuses} = DOMAIN FUTURES_DATABASE

\* C5 witness: the batch is over, the fetch of the second symbol raised and
\* the first and third returned a status of their own
C5_Witness ==
    /\ cmd = "today" /\ pc = "done" /\ exit = "ok"
    /\ Len(fetched) = 3
    /\ ~fetched[1].raised /\ fetched[2].raised /\ ~fetched[3].raised
    /\ statuses[1].state = "rolling"
    /\ statuses[2].recommendation = <<"Error fetching data">>
    /\ statuses[3].recommendation = <<"Insufficient contracts">>

\* get_roll_status raises whenever the contract-chain request, the
\* qualification or the market-data request raises
FetchFailurePropagates ==
    \A symbol \in Range(DatabaseKeys) :
        \A io \in BrokerAnswers(symbol) :
            (io.details.raised \/ io.qualify_raises \/ io.mkt.raised)
                => get_roll_status(symbol, io) = [raised |-> TRUE, value |-> <<>>]

\* C6: a failure inside get_roll_status reaches the caller, and in `roll
\* status` a failure on one symbol ends the command with an error: no later
\* symbol is visited, no placeholder row is substituted and no table printed.
C6_StatusPropagatesFailure ==
    /\ FetchFailurePropagates
    /\ cmd = "status" =>
          /\ \A i \in DOMAIN fetched :
                fetched[i].raised =>
                    /\ i = Len(fetched)
                    /\ pc = "done" /\ exit = "error" /\ table = None
          /\ \A i \in DOMAIN statuses :
                statuses[i].recommendation # <<"Error fetching data">>
          /\ Len(statuses) = Cardinality({i \in DOMAIN fetched : ~fetched[i].raised})
          /\ table # None => table = statuses /\ Len(statuses) = Len(fetched)

\* C6 witness: `roll status` with two symbols, the first fetched, the second
\* failing: the command ended with an error and printed nothing
C6_Witness ==
    /\ cmd = "status" /\ pc = "done" /\ exit = "error"
    /\ Len(fetched) = 2
    /\ ~fetched[1].raised /\ fetched[2].raised
    /\ Len(statuses) = 1
    /\ table = None

\* C9: the ratio of every status lies in [0, 1]; it is back_oi / (front_oi +
\* back_oi) when the total is positive and 0.0 on every UNKNOWN path.
C9_RatioRange ==
    \A i \in DOMAIN statuses :
        LET st == statuses[i]
            f == st.front_oi[1]
            b == st.back_oi[1]
            r == st.ratio
        IN  /\ st.front_oi[2] = 1 /\ st.back_oi[2] = 1 /\ f >= 0 /\ b >= 0
            /\ r[2] > 0 /\ 0 <= r[1] /\ r[1] <= r[2]
            /\ f + b > 0 => r[1] * (f + b) = b * r[2]
            /\ st.state = "unknown" => r = <<0, 1>>

\* C9 witness: a batch with a status of ratio 1/4 (3 and 1), an UNKNOWN status
\* for a zero total, and an UNKNOWN status for a failed fetch
C9_Witness ==
    /\ cmd = "today"
    /\ Len(statuses) = 3
    /\ statuses[1].front_oi = Float(3) /\ statuses[1].back_oi = Float(1)
    /\ statuses[1].ratio = <<1, 4>>
    /\ statuses[2].back_contract # None /\ statuses[2].state = "unknown"
    /\ statuses[2].ratio = <<0, 1>>
    /\ fetched[3].raised /\ statuses[3].ratio = <<0, 1>>

----------------------------------------------------------------------------
(* roll.py: get_oi_snapshot step by step, with the subscriptions it opens *)
(* and closes at the broker *)

\* lists of up to MaxDetails distinct contracts of ES
ContractLists == DetailLists("ES")

\* lines 146-153: the empty list returns {} at once; otherwise reqMktData is
\* called for every contract, with no await in between; it raises when the
\* client is not connected, before anything is subscribed
GetOiSnapshotCall ==
    /\ oi_pc = "idle"
    /\ \E contracts \in ContractLists, connected \in BOOLEAN :
          /\ oi_contracts' = contracts
          /\ IF contracts = <<>>
             THEN oi_pc' = "returned" /\ UNCHANGED subscriptions
             ELSE IF ~connected
             THEN oi_pc' = "raised" /\ UNCHANGED subscriptions
             ELSE /\ oi_pc' = "sleep"
                  /\ subscriptions' = subscriptions \cup Range(contracts)
    /\ UNCHANGED <<calcVars, rollVars, lockVars, traderVars, orderVars, oi_i, tickers, oi_dict>>

\* line 156: await asyncio.sleep(2.5), the ticks arriving meanwhile
GetOiSnapshotSleep ==
    /\ oi_pc = "sleep"
    /\ tickers' \in [Range(oi_contracts) -> Readings]
    /\ oi_pc' = "collect"
    /\ oi_i' = 1
    /\ UNCHANGED <<calcVars, rollVars, lockVars, traderVars, orderVars, oi_contracts, subscriptions, oi_dict>>

\* line 156: the task is cancelled while it sleeps; CancelledError leaves the
\* function, nothing after the await runs
GetOiSnapshotCancelled ==
    /\ oi_pc = "sleep"
    /\ oi_pc' = "raised"
    /\ UNCHANGED <<calcVars, rollVars, lockVars, traderVars, orderVars, oi_contracts, oi_i, subscriptions,
                   tickers, oi_dict>>

\* faulty variant: the reading stored as it is, NaN included
GetOiSnapshotCollect_keep_nan ==
    /\ oi_pc = "collect"
    /\ oi_i <= Len(oi_contracts)
    /\ LET contract == oi_contracts[oi_i]
           oi == tickers[contract]
       IN  /\ oi_dict' = (contract.localSymbol :> oi) @@ oi_dict
           /\ subscriptions' = subscriptions \ {contract}
    /\ oi_i' = oi_i + 1
    /\ UNCHANGED <<calcVars, rollVars, lockVars, traderVars, orderVars, oi_pc, oi_contracts, tickers>>

\* lines 160-169: one turn of the collecting loop
GetOiSnapshotCollect ==
    /\ oi_pc = "collect"
    /\ oi_i <= Len(oi_contracts)
    /\ LET contract == oi_contracts[oi_i]
           oi == tickers[contract]
       IN  /\ oi_dict' = (contract.localSymbol :>
                              (IF FEq(oi, oi) THEN oi ELSE Float(0))) @@ oi_dict
           /\ subscriptions' = subscriptions \ {contract}
    /\ oi_i' = oi_i + 1
    /\ UNCHANGED <<calcVars, rollVars, lockVars, traderVars, orderVars, oi_pc, oi_contracts, tickers>>

\* line 171: return result
GetOiSnapshotReturn ==
    /\ oi_pc = "collect"
    /\ oi_i > Len(oi_contracts)
    /\ oi_pc' = "returned"
    /\ UNCHANGED <<calcVars, rollVars, lockVars, traderVars, orderVars, oi_contracts, oi_i, subscriptions,
                   tickers, oi_dict>>

NextSnapshot ==
    \/ GetOiSnapshotCall
    \/ GetOiSnapshotSleep
    \/ GetOiSnapshotCancelled
    \/ GetOiSnapshotCollect
    \/ GetOiSnapshotReturn

SpecSnapshot == Init /\ [][NextSnapshot]_vars

----------------------------------------------------------------------------
(* Properties of get_oi_snapshot, checked under SpecSnapshot *)

\* C14: when get_oi_snapshot returns, its result has one entry per requested
\* contract, under the contract's localSymbol: the ticker's open interest
\* when that is a number, 0.0 when it is NaN; and every subscription the call
\* opened has been cancelled.  The result is the one get_roll_status is
\* modelled with.
C14_SnapshotReplacesNaN ==
    oi_pc = "returned" =>
        /\ DOMAIN oi_dict = {oi_contracts[i].localSymbol : i \in DOMAIN oi_contracts}
        /\ Cardinality(DOMAIN oi_dict) = Len(oi_contracts)
        /\ \A i \in DOMAIN oi_contracts :
              LET reading == tickers[oi_contracts[i]]
                  entry == oi_dict[oi_contracts[i].localSymbol]
              IN  /\ IsNaN(reading) => entry = Float(0)
                  /\ ~IsNaN(reading) => entry = reading
                  /\ ~IsNaN(entry)
        /\ subscriptions = {}
        /\ oi_contracts # <<>> =>
              oi_dict = get_oi_snapshot(oi_contracts,
                            [raised |-> FALSE,
                             ticks |-> [i \in DOMAIN oi_contracts |->
                                           tickers[oi_contracts[i]]]]).value

\* C14 witness: ESM5 read 3 and ESU5 read NaN; the call returned 3 and 0.0
\* with no subscription left
C14_Witness ==
    /\ oi_pc = "returned"
    /\ Len(oi_contracts) = 2
    /\ oi_contracts[1].localSymbol = <<"ES", "M5">>
    /\ oi_contracts[2].localSymbol = <<"ES", "U5">>
    /\ tickers[oi_contracts[1]] = Float(3)
    /\ IsNaN(tickers[oi_contracts[2]])
    /\ oi_dict[<<"ES", "M5">>] = Float(3)
    /\ oi_dict[<<"ES", "U5">>] = Float(0)
    /\ subscriptions = {}

----------------------------------------------------------------------------
(* client_id.py: allocate() and release(), one system call at a time *)

Offset(p) == TOOL_OFFSETS[tool[p]]

\* faulty variant: the tool's offset left out of the candidate
Candidate_no_offset(p) == client_id_start + cand[p]

\* candidate = base + offset + i
Candidate(p) == client_id_start + Offset(p) + cand[p]

\* os.kill(pid, 0): "ok" when the signal could be sent, else the exception
Probe(pid) ==
    IF \E p \in Procs : Pids[p] = pid
    THEN LET p == CHOOSE q \in Procs : Pids[q] = pid
         IN  IF ppc[p] = "dead" THEN "ProcessLookupError" ELSE "ok"
    ELSE IF pid = LivePid THEN "ok"
    ELSE IF pid = ForeignPid THEN "PermissionError"
    ELSE "ProcessLookupError"

\* the file holds the PID of a process that exists
NamesLive(file) ==
    file.exists /\ \E pid \in file.content : Probe(pid) # "ProcessLookupError"

\* the lock directory a process may find: the first `leading` IDs of each
\* range locked by a live process, the next one absent, stale, locked by
\* another user's live process, or empty
FirstFiles ==
    {NoFile, File(0, {DeadPid}), File(0, {ForeignPid}), File(0, {})}

InitialFiles(leading, first) ==
    [id \in LockIds |->
        LET i == (id - client_id_start) % RANGE_SIZE
        IN  IF i < leading THEN File(0, {LivePid})
            ELSE IF i = leading THEN first
            ELSE NoFile]

InitLockDir ==
    /\ tool \in [Procs -> Tools]
    /\ ppc = [p \in Procs |-> "start"]
    /\ cand = [p \in Procs |-> 0]
    /\ readpid = [p \in Procs |-> 0]
    /\ client_id = [p \in Procs |-> {}]
    /\ created = [p \in Procs |-> {}]
    /\ \E leading \in {0, RANGE_SIZE}, first \in FirstFiles :
          files = InitialFiles(leading, first)
    /\ stolen = {}
    /\ others = {id \in LockIds :
                    files[id].exists /\ files[id].content \in {{LivePid}, {ForeignPid}}}

\* lines 93-98: allocate() in auto mode enters its loop
Allocate(p) ==
    /\ ppc[p] = "start"
    /\ cand' = [cand EXCEPT ![p] = 0]
    /\ ppc' = [ppc EXCEPT ![p] = "open"]
    /\ UNCHANGED <<calcVars, rollVars, snapVars, traderVars, orderVars, tool, readpid, client_id,
                   created, files, stolen, others>>

\* line 47: os.open(lock_path, O_CREAT | O_EXCL | O_WRONLY)
AcquireOpen(p) ==
    /\ ppc[p] = "open"
    /\ LET id == Candidate(p) IN
       IF files[id].exists
       THEN /\ ppc' = [ppc EXCEPT ![p] = "read"]        \* FileExistsError
            /\ UNCHANGED <<files, created>>
       ELSE /\ files' = [files EXCEPT ![id] = File(p, {})]
            /\ created' = [created EXCEPT ![p] = @ \cup {id}]
            /\ ppc' = [ppc EXCEPT ![p] = "write"]
    /\ UNCHANGED <<calcVars, rollVars, snapVars, traderVars, orderVars, tool, cand, readpid, client_id,
                   stolen, others>>

\* lines 48-50 and 100-102: the PID is written through the descriptor, to
\* the file this process created even if the path no longer leads to it;
\* _acquire_lock returns True and allocate() returns the candidate
AcquireWrite(p) ==
    /\ ppc[p] = "write"
    /\ LET id == Candidate(p) IN
       /\ files' = IF files[id].exists /\ files[id].creator = p
                   THEN [files EXCEPT ![id] = File(p, {Pids[p]})]
                   ELSE files
       /\ client_id' = [client_id EXCEPT ![p] = {id}]
    /\ ppc' = [ppc EXCEPT ![p] = "holding"]
    /\ UNCHANGED <<calcVars, rollVars, snapVars, traderVars, orderVars, tool, cand, readpid, created,
                   stolen, others>>

\* the loop goes on to the next candidate (lines 97-99) or, the range
\* exhausted, allocate() returns the fallback with no lock (lines 104-108)
NextCandidate(p) ==
    IF cand[p] + 1 < RANGE_SIZE
    THEN /\ cand' = [cand EXCEPT ![p] = @ + 1]
         /\ ppc' = [ppc EXCEPT ![p] = "open"]
         /\ UNCHANGED client_id
    ELSE /\ client_id' = [client_id EXCEPT ![p] =
                              {client_id_start + Offset(p) + 100 + (Pids[p] % 100)}]
         /\ ppc' = [ppc EXCEPT ![p] = "holding"]
         /\ UNCHANGED cand

\* lines 54-55: open(lock_path) and int(f.read().strip()).  A missing file
\* raises FileNotFoundError, which no except clause of _acquire_lock names:
\* it leaves allocate().  An empty file raises ValueError.
AcquireRead(p) ==
    /\ ppc[p] = "read"
    /\ LET file == files[Candidate(p)] IN
       IF ~file.exists
       THEN ppc' = [ppc EXCEPT ![p] = "failed"] /\ UNCHANGED readpid
       ELSE IF file.content = {}
       THEN ppc' = [ppc EXCEPT ![p] = "unlink"] /\ UNCHANGED readpid
       ELSE /\ readpid' = [readpid EXCEPT ![p] = CHOOSE pid \in file.content : TRUE]
            /\ ppc' = [ppc EXCEPT ![p] = "probe"]
    /\ UNCHANGED <<calcVars, rollVars, snapVars, traderVars, orderVars, tool, cand, client_id, created,
                   files, stolen, others>>

\* lines 57-59: os.kill(pid, 0); no exception: return False; ProcessLookupError
\* or PermissionError: on to the removal of the lock
AcquireProbe(p) ==
    /\ ppc[p] = "probe"
    /\ IF Probe(readpid[p]) = "ok"
       THEN NextCandidate(p)
       ELSE ppc' = [ppc EXCEPT ![p] = "unlink"] /\ UNCHANGED <<cand, client_id>>
    /\ UNCHANGED <<calcVars, rollVars, snapVars, traderVars, orderVars, tool, readpid, created, files,
                   stolen, others>>

\* lines 61-65: lock_path.unlink() and the retry, or return False when the
\* file is gone
AcquireUnlink(p) ==
    /\ ppc[p] = "unlink"
    /\ LET id == Candidate(p) IN
       IF files[id].exists
       THEN /\ files' = [files EXCEPT ![id] = NoFile]
            /\ stolen' = IF NamesLive(files[id]) THEN stolen \cup {id} ELSE stolen
            /\ ppc' = [ppc EXCEPT ![p] = "open"]
            /\ UNCHANGED <<cand, client_id>>
       ELSE /\ NextCandidate(p)
            /\ UNCHANGED <<files, stolen>>
    /\ UNCHANGED <<calcVars, rollVars, snapVars, traderVars, orderVars, tool, readpid, created, others>>

\* lines 110-114 and 68-74: release() unlinks the lock file of the ID held,
\* whatever it holds now
Release(p) ==
    /\ ppc[p] = "holding"
    /\ LET id == CHOOSE i \in client_id[p] : TRUE IN
       files' = IF id \in LockIds THEN [files EXCEPT ![id] = NoFile] ELSE files
    /\ client_id' = [client_id EXCEPT ![p] = {}]
    /\ ppc' = [ppc EXCEPT ![p] = "released"]
    /\ UNCHANGED <<calcVars, rollVars, snapVars, traderVars, orderVars, tool, cand, readpid, created,
                   stolen, others>>

\* the process is killed where it stands, no cleanup handler running
Die(p) ==
    /\ ppc[p] \notin {"start", "dead"}
    /\ ppc' = [ppc EXCEPT ![p] = "dead"]
    /\ UNCHANGED <<calcVars, rollVars, snapVars, traderVars, orderVars, tool, cand, readpid, client_id,
                   created, files, stolen, others>>

NextLock ==
    \E p \in Procs :
        \/ Allocate(p)
        \/ AcquireOpen(p)
        \/ AcquireWrite(p)
        \/ AcquireRead(p)
        \/ AcquireProbe(p)
        \/ AcquireUnlink(p)
        \/ Release(p)
        \/ Die(p)

InitLock ==
    /\ call = [fn |-> "none"]
    /\ ret = None
    /\ InitRoll
    /\ InitSnapshot
    /\ InitLockDir
    /\ InitTrader
    /\ InitOrders

SpecLock == InitLock /\ [][NextLock]_vars

----------------------------------------------------------------------------
(* Properties of the client ID allocation, checked under SpecLock *)

Holding(p) == ppc[p] = "holding"

\* the IDs of the range of a tool offset
ToolRange(o) == (client_id_start + o)..(client_id_start + o + RANGE_SIZE - 1)

\* the ID allocate() falls back to when the range is exhausted
Fallback(p) == client_id_start + Offset(p) + 100 + (Pids[p] % 100)

\* C16: no two live processes that have allocated a client ID and not
\* released it hold the same ID, whatever the interleaving of their steps;
\* the live processes outside the model that hold an ID count as well.
C16_UniqueClientIds ==
    /\ \A p, q \in Procs :
          (p # q /\ Holding(p) /\ Holding(q)) => client_id[p] # client_id[q]
    /\ \A p \in Procs : Holding(p) => client_id[p] \cap others = {}

\* C17 as stated: every ID returned by allocate() for a tool with offset o
\* lies in client_id_start + o .. client_id_start + o + 9.
C17_IdsInToolRange ==
    \A p \in Procs : Holding(p) => client_id[p] \subseteq ToolRange(Offset(p))

\* C17 amended: every ID for which allocate() acquired a lock lies in the
\* range of its tool, so such IDs of tools with different offsets never
\* coincide; the only other ID allocate() returns is the fallback
\* client_id_start + o + 100 + pid mod 100, returned after the last of the
\* 10 IDs of the range was found locked, and it lies in no tool's range.
C17_LockedIdsInToolRange ==
    /\ \A p \in Procs :
          Holding(p) =>
              \/ /\ client_id[p] \subseteq ToolRange(Offset(p))
                 /\ client_id[p] \subseteq created[p]
                 /\ client_id[p] = {Candidate(p)}
              \/ /\ client_id[p] = {Fallback(p)}
                 /\ cand[p] = RANGE_SIZE - 1
                 /\ created[p] = {}
                 /\ \A t \in DOMAIN TOOL_OFFSETS :
                       Fallback(p) \notin ToolRange(TOOL_OFFSETS[t])
    /\ \A p \in Procs : created[p] \subseteq ToolRange(Offset(p))
    /\ \A p, q \in Procs :
          (Holding(p) /\ Holding(q) /\ Offset(p) # Offset(q)
             /\ client_id[p] \subseteq created[p]
             /\ client_id[q] \subseteq created[q]) => client_id[p] # client_id[q]

\* C17 witness: the 10 IDs of the cli range are locked by a live process and
\* the cli process of PID 4015 holds the fallback 1 + 0 + 100 + 15
C17_Witness ==
    /\ tool[1] = "cli"
    /\ Holding(1)
    /\ client_id[1] = {116}
    /\ \A id \in ToolRange(0) : files[id] = File(0, {LivePid})

\* C18: _acquire_lock returns True only to the process that created the lock
\* file of the ID, and it never removes a lock file that names a live
\* process, whether the probe of that process succeeds or is denied.
C18_LockOfLiveProcessKept ==
    /\ stolen = {}
    /\ \A p \in Procs :
          (Holding(p) /\ client_id[p] # {Fallback(p)}) => client_id[p] \subseteq created[p]

\* C24: _acquire_lock removes a lock file only when it is stale (it names a
\* process that no longer exists, or holds no valid PID) and then retries,
\* returning True with the file holding the caller's PID; the lock of a
\* live process is never removed this way.  So the lock file of every ID a
\* live process acquired and has not released exists, is the file that
\* process created, and holds its PID.
C24_StaleLockRemovedLiveLockKept ==
    \A p \in Procs :
        (Holding(p) /\ client_id[p] # {Fallback(p)}) =>
            \A id \in client_id[p] : files[id] = File(p, {Pids[p]})

----------------------------------------------------------------------------
(* trader.py: the keyboard shortcuts of the click trader.  The callbacks   *)
(* run one at a time; a dispatch is a call of _on_<action>_click, which    *)
(* hands the order coroutine to the event loop.                            *)

\* lines 622-627
action_map ==
    [key \in {"B", "S", "F", "R"} |->
        IF key = "B" THEN "buy" ELSE IF key = "S" THEN "sell"
        ELSE IF key = "F" THEN "flatten" ELSE "reverse"]

Actions == {"buy", "sell", "flatten", "reverse"}

\* the keys a press may carry: the shortcuts, Enter with and without Ctrl,
\* and any other key
Keys == {"Q", "B", "S", "F", "R", "P", "Ctrl+Enter", "Enter", "other"}

\* the events handled: a key press, a click on an action's button
Key(key) == <<"key", key>>

Click(action) == <<"click", action>>

\* the call _on_<action>_click made while handling event number `event`,
\* and highlighted_action at the time of the call
Dispatch(action, event, highlighted) ==
    [action |-> action, event |-> event, highlighted |-> highlighted]

\* faulty variant: the action dispatched with its highlight left in place
OnKeyPress_keep_highlight(key) ==
    /\ Len(events) < MaxEvents
    /\ events' = Append(events, Key(key))
    /\ IF key \in DOMAIN action_map
       THEN /\ highlighted_action' = action_map[key]
            /\ UNCHANGED dispatched
       ELSE IF key = "Ctrl+Enter" /\ highlighted_action # "none"
       THEN /\ dispatched' = Append(dispatched,
                                    Dispatch(highlighted_action, Len(events) + 1,
                                             highlighted_action))
            /\ UNCHANGED highlighted_action
       ELSE UNCHANGED <<highlighted_action, dispatched>>
    /\ UNCHANGED <<calcVars, rollVars, snapVars, lockVars, orderVars>>

\* lines 598-688: _on_key_press with _highlight_action, _clear_highlight and
\* _execute_highlighted_action
OnKeyPress(key) ==
    /\ Len(events) < MaxEvents
    /\ events' = Append(events, Key(key))
    /\ IF key = "Q"
       THEN UNCHANGED <<highlighted_action, dispatched>>
       ELSE IF key \in DOMAIN action_map
       THEN \* _highlight_action: the previous highlight cleared, the new one set
            /\ highlighted_action' = action_map[key]
            /\ UNCHANGED dispatched
       ELSE IF key = "P"
       THEN UNCHANGED <<highlighted_action, dispatched>>
       ELSE IF key = "Ctrl+Enter"
       THEN \* _execute_highlighted_action
            LET action == highlighted_action IN
            IF action = "none"
            THEN UNCHANGED <<highlighted_action, dispatched>>
            ELSE /\ highlighted_action' = "none"          \* _clear_highlight
                 /\ dispatched' = Append(dispatched,
                                         Dispatch(action, Len(events) + 1, "none"))
       ELSE UNCHANGED <<highlighted_action, dispatched>>
    /\ UNCHANGED <<calcVars, rollVars, snapVars, lockVars, orderVars>>

\* lines 582-596: a button is clicked with the mouse
OnButtonClick(action) ==
    /\ Len(events) < MaxEvents
    /\ events' = Append(events, Click(action))
    /\ dispatched' = Append(dispatched,
                            Dispatch(action, Len(events) + 1, highlighted_action))
    /\ UNCHANGED <<calcVars, rollVars, snapVars, lockVars, orderVars, highlighted_action>>

NextTrader ==
    \/ \E key \in Keys : OnKeyPress(key)
    \/ \E action \in Actions : OnButtonClick(action)

SpecTrader == Init /\ [][NextTrader]_vars

----------------------------------------------------------------------------
(* Properties of the click trader, checked under SpecTrader *)

IsActionKey(e) == e[1] = "key" /\ e[2] \in {"B", "S", "F", "R"}

\* the action event k finds armed: that of the last action key before k,
\* unless a Ctrl+Enter came after that key; "none" otherwise
ArmedAt(k) ==
    LET before == {j \in 1..(k - 1) : IsActionKey(events[j])} IN
    IF before = {} THEN "none"
    ELSE LET j == CHOOSE i \in before : \A h \in before : h <= i IN
         IF \E h \in (j + 1)..(k - 1) : events[h] = Key("Ctrl+Enter") THEN "none"
         ELSE IF events[j] = Key("B") THEN "buy"
         ELSE IF events[j] = Key("S") THEN "sell"
         ELSE IF events[j] = Key("F") THEN "flatten"
         ELSE "reverse"

DispatchesOf(k) == {i \in DOMAIN dispatched : dispatched[i].event = k}

\* C20: over every sequence of key presses and clicks, a Ctrl+Enter that
\* follows an action key (B, S, F, R) with no other Ctrl+Enter in between
\* dispatches the action of the last such key exactly once, with
\* highlighted_action already cleared when the dispatch is made; every other
\* Ctrl+Enter (nothing highlighted, or the highlight used up by an earlier
\* Ctrl+Enter) dispatches nothing, and no other key dispatches anything.
C20_NoDoubleExecution ==
    /\ \A k \in DOMAIN events :
          IF events[k] = Key("Ctrl+Enter") /\ ArmedAt(k) # "none"
          THEN /\ Cardinality(DispatchesOf(k)) = 1
               /\ \A i \in DispatchesOf(k) :
                     /\ dispatched[i].action = ArmedAt(k)
                     /\ dispatched[i].highlighted = "none"
          ELSE IF events[k][1] = "key"
          THEN DispatchesOf(k) = {}
          ELSE /\ Cardinality(DispatchesOf(k)) = 1
               /\ \A i \in DispatchesOf(k) : events[k] = Click(dispatched[i].action)
    /\ \A i \in DOMAIN dispatched : dispatched[i].event \in DOMAIN events
    /\ highlighted_action = ArmedAt(Len(events) + 1)

\* C20 witness: B, Ctrl+Enter, Ctrl+Enter: one buy dispatched, by the first
\* Ctrl+Enter
C20_Witness ==
    /\ events = <<Key("B"), Key("Ctrl+Enter"), Key("Ctrl+Enter")>>
    /\ dispatched = <<Dispatch("buy", 2, "none")>>
    /\ highlighted_action = "none"

----------------------------------------------------------------------------
(* trader.py: the orders of the click trader.  The order coroutines and    *)
(* the broker's callbacks run on one event loop, so each runs from one     *)
(* await to the next with nothing in between; a place_order coroutine      *)
(* waits in its polling loop (lines 298-299) while fills, position updates *)
(* and further requests are handled.  Prices are whole numbers of ticks.   *)

\* TraderState.multiplier once a contract is set (lines 45 and 253-257)
multiplier == 2

FillPrices == 1..MaxFill

\* lines 288-294: the trade of a place_order coroutine and what the
\* coroutine captured before it placed the order
Order(req, action, qty, prev_position, prev_avg_cost) ==
    [req |-> req, action |-> action, totalQuantity |-> qty,
     prev_position |-> prev_position, prev_avg_cost |-> prev_avg_cost,
     status |-> "Submitted", avgFillPrice |-> 0, done |-> FALSE]

\* a Position the broker reports; ours: for the selected account and contract
Position(ours, pos, avgCost) == [ours |-> ours, position |-> pos, avgCost |-> avgCost]

\* faulty variant: every fill against an open position is booked
calculate_realized_pnl_any_side(points, prev_position, prev_avg_cost, action, fill_price) ==
    IF prev_position = 0 THEN points
    ELSE IF action = "SELL" THEN points + (fill_price - prev_avg_cost)
    ELSE points + (prev_avg_cost - fill_price)

\* lines 363-384: daily_realized_points after _calculate_realized_pnl, given
\* its value before
calculate_realized_pnl(points, prev_position, prev_avg_cost, action, fill_price) ==
    IF prev_position = 0 THEN points
    ELSE IF prev_position > 0 /\ action = "SELL"
    THEN points + (fill_price - prev_avg_cost)
    ELSE IF prev_position < 0 /\ action = "BUY"
    THEN points + (prev_avg_cost - fill_price)
    ELSE points

\* lines 282-295: place_order up to its first await
place_order(req, action, qty) ==
    IF ~ib
    THEN UNCHANGED orders
    ELSE orders' = Append(orders, Order(req, action, qty, position, avg_cost))

\* lines 312-314
Buy ==
    /\ Len(orders) < MaxOrders
    /\ place_order("buy", "BUY", quantity)
    /\ UNCHANGED <<calcVars, rollVars, snapVars, lockVars, traderVars, ib, position,
                   avg_cost, quantity, daily_realized_points, account_position, updates>>

\* lines 316-318
Sell ==
    /\ Len(orders) < MaxOrders
    /\ place_order("sell", "SELL", quantity)
    /\ UNCHANGED <<calcVars, rollVars, snapVars, lockVars, traderVars, ib, position,
                   avg_cost, quantity, daily_realized_points, account_position, updates>>

\* lines 320-329
Reverse ==
    /\ Len(orders) < MaxOrders
    /\ IF position = 0
       THEN UNCHANGED orders
       ELSE place_order("reverse", IF position < 0 THEN "BUY" ELSE "SELL",
                        Abs(position) + quantity)
    /\ UNCHANGED <<calcVars, rollVars, snapVars, lockVars, traderVars, ib, position,
                   avg_cost, quantity, daily_realized_points, account_position, updates>>

\* lines 331-338
Flatten ==
    /\ Len(orders) < MaxOrders
    /\ IF position = 0
       THEN UNCHANGED orders
       ELSE place_order("flatten", IF position > 0 THEN "SELL" ELSE "BUY", Abs(position))
    /\ UNCHANGED <<calcVars, rollVars, snapVars, lockVars, traderVars, ib, position,
                   avg_cost, quantity, daily_realized_points, account_position, updates>>

\* lines 506-508
OnQuantityChange ==
    /\ \E value \in 0..MaxQuantity :
          quantity' = IF value < 1 THEN 1 ELSE value
    /\ UNCHANGED <<calcVars, rollVars, snapVars, lockVars, traderVars, ib, position,
                   avg_cost, daily_realized_points, orders,
                   account_position, updates>>

\* the broker fills a working order at some price: the trade is done, the
\* position of the account moves by the quantity and a position update is
\* sent, with the average cost (price times multiplier) the broker keeps
BrokerFill ==
    /\ ib
    /\ \E i \in DOMAIN orders, price \in FillPrices, cost \in FillPrices :
          LET o == orders[i]
              new == IF o.action = "BUY" THEN account_position + o.totalQuantity
                     ELSE account_position - o.totalQuantity
          IN  /\ o.status = "Submitted"
              /\ orders' = [orders EXCEPT ![i].status = "Filled",
                                          ![i].avgFillPrice = price]
              /\ account_position' = new
              /\ updates' = Append(updates,
                                   Position(TRUE, new,
                                            IF new = 0 THEN 0 ELSE cost * multiplier))
    /\ UNCHANGED <<calcVars, rollVars, snapVars, lockVars, traderVars, ib, position,
                   avg_cost, quantity, daily_realized_points>>

\* the broker ends a working order unfilled
BrokerCancel ==
    /\ ib
    /\ \E i \in DOMAIN orders :
          /\ orders[i].status = "Submitted"
          /\ orders' = [orders EXCEPT ![i].status = "Cancelled"]
    /\ UNCHANGED <<calcVars, rollVars, snapVars, lockVars, traderVars, ib, position,
                   avg_cost, quantity, daily_realized_points, account_position, updates>>

\* lines 298-310: the polling loop of a place_order coroutine finds its
\* trade done
OrderDone ==
    /\ \E i \in DOMAIN orders :
          LET o == orders[i] IN
          /\ ~o.done
          /\ o.status # "Submitted"
          /\ orders' = [orders EXCEPT ![i].done = TRUE]
          /\ daily_realized_points' =
                IF o.status = "Filled"
                THEN calculate_realized_pnl(daily_realized_points, o.prev_position,
                                            o.prev_avg_cost, o.action, o.avgFillPrice)
                ELSE daily_realized_points
    /\ UNCHANGED <<calcVars, rollVars, snapVars, lockVars, traderVars, ib, position,
                   avg_cost, quantity, account_position, updates>>

\* lines 340-356: _on_position, called with the oldest update not yet
\* delivered or with a position of another account or contract
OnPosition ==
    /\ ib
    /\ \E update \in {Position(FALSE, 1, multiplier)}
                       \cup (IF updates = <<>> THEN {} ELSE {Head(updates)}) :
          IF update.ours
          THEN /\ position' = update.position
               /\ avg_cost' = IF multiplier > 0 THEN update.avgCost \div multiplier
                              ELSE update.avgCost
               /\ updates' = Tail(updates)
          ELSE UNCHANGED <<position, avg_cost, updates>>
    /\ UNCHANGED <<calcVars, rollVars, snapVars, lockVars, traderVars, ib, quantity,
                   daily_realized_points, orders, account_position>>

\* lines 153-163: disconnect(); nothing is received from the broker afterwards
Disconnect ==
    /\ ib
    /\ ib' = FALSE
    /\ UNCHANGED <<calcVars, rollVars, snapVars, lockVars, traderVars, position, avg_cost,
                   quantity, daily_realized_points, orders, account_position, updates>>

NextOrders ==
    \/ Buy
    \/ Sell
    \/ Reverse
    \/ Flatten
    \/ OnQuantityChange
    \/ BrokerFill
    \/ BrokerCancel
    \/ OrderDone
    \/ OnPosition
    \/ Disconnect

\* connected, a contract set (daily_realized_points reset, line 265), and the
\* position of the account, if any, delivered
InitOrdersConnected ==
    /\ ib = TRUE
    /\ position \in -MaxPosition..MaxPosition
    /\ avg_cost \in IF position = 0 THEN {0} ELSE FillPrices
    /\ quantity = 1
    /\ daily_realized_points = 0
    /\ orders = <<>>
    /\ account_position = position
    /\ updates = <<>>

InitOrdersSpec ==
    /\ call = [fn |-> "none"]
    /\ ret = None
    /\ InitRoll
    /\ InitSnapshot
    /\ InitLockIdle
    /\ InitTrader
    /\ InitOrdersConnected

SpecOrders == InitOrdersSpec /\ [][NextOrders]_vars

----------------------------------------------------------------------------
(* Properties of the orders of the click trader, checked under SpecOrders *)

\* the order is on the side opposite to the position p
Opposite(o, p) == o.action = IF p > 0 THEN "SELL" ELSE "BUY"

\* every order placed so far came from flatten() and has filled, and every
\* position update has been delivered
OnlyFlattensAllSettled ==
    /\ orders # <<>>
    /\ \A i \in DOMAIN orders : orders[i].req = "flatten" /\ orders[i].status = "Filled"
    /\ updates = <<>>

\* C21: flatten() with position # 0 places one market order on the side
\* opposite to the position for |position| contracts and none with position
\* 0, and once all orders placed by flatten() have filled and the position
\* updates are delivered the position is 0, whatever the interleaving of
\* flatten requests, fills and position updates.
C21_FlattenClosesAll ==
    /\ \A i \in DOMAIN orders :
          orders[i].req = "flatten" =>
              /\ orders[i].prev_position # 0
              /\ Opposite(orders[i], orders[i].prev_position)
              /\ orders[i].totalQuantity = Abs(orders[i].prev_position)
    /\ OnlyFlattensAllSettled => (position = 0 /\ account_position = 0)

\* the quantity configured when reverse() placed the order o
ConfiguredQuantity(o) == o.totalQuantity - Abs(o.prev_position)

\* order i, placed by reverse(), fills in this step
ReverseFills(i) ==
    /\ orders[i].req = "reverse"
    /\ orders[i].status = "Submitted"
    /\ orders'[i].status = "Filled"

\* C22: reverse() with position p # 0 and configured quantity q >= 1 places
\* one market order of |p| + q contracts on the side opposite to p, so that
\* after its fill the position is -sign(p) * q; with p = 0 it places no
\* order.  Stated of the behaviours whose orders all come from reverse().
C22_ReverseOpensOpposite ==
    [][(\A j \in DOMAIN orders : orders[j].req = "reverse") =>
         \A i \in DOMAIN orders :
            /\ orders[i].prev_position # 0
            /\ Opposite(orders[i], orders[i].prev_position)
            /\ ConfiguredQuantity(orders[i]) >= 1
            /\ ReverseFills(i) =>
                  account_position' =
                      -Sign(orders[i].prev_position) * ConfiguredQuantity(orders[i])]_vars

\* the same with the position reverse() read still being the position of
\* the account when the order fills
C22_ReverseOfCurrentPosition ==
    [][\A i \in DOMAIN orders :
          (ReverseFills(i) /\ account_position = orders[i].prev_position) =>
              account_position' =
                  -Sign(orders[i].prev_position) * ConfiguredQuantity(orders[i])]_vars

\* the place_order coroutines that finish in this step
Finishing == {i \in DOMAIN orders : ~orders[i].done /\ orders'[i].done}

\* the order was filled and is on the side that reduces the position
\* place_order captured before placing it
ClosesLong(o) == o.status = "Filled" /\ o.prev_position > 0 /\ o.action = "SELL"

ClosesShort(o) == o.status = "Filled" /\ o.prev_position < 0 /\ o.action = "BUY"

====
